---- MODULE Spec2Model ----
(***************************************************************************)
(* WiFi provisioning state machine of the Smart Wardrobe device.           *)
(*                                                                         *)
(* The device state is a handful of files (config.json, its .tmp sibling,  *)
(* the retry-count file, the setup-mode flag, the mode marker), the        *)
(* connection profiles stored by NetworkManager and the state of hostapd   *)
(* and of wlan0.  The processes are the controller scripts                 *)
(* (auto_setup_check.sh, smartwardrobe-connect-wifi.sh,                    *)
(* smartwardrobe-force-ap.sh), the watchdogs that start them, the manual   *)
(* scripts and the three writers of config.json.  Every script is split    *)
(* at the points where it reads or writes shared state, so that the        *)
(* interleavings of concurrently running scripts are the model's           *)
(* behaviours.                                                             *)
(***************************************************************************)
EXTENDS Integers, Sequences, FiniteSets, TLC

MAX_RETRIES == 3

\* Number of controller processes that may be alive at the same time.
MaxRuns == 2

\* Largest number the model lets a process write to the retry-count file.
MaxCount == 4
\* Number of processes (controller runs and config writers) in progress at once.
MaxBusy == 2

\* ping -W 10: seconds a ping waits for the answer
PING_WAIT == 10
\* Longest time an endpoint takes to answer; beyond PING_WAIT the ping has failed.
MaxLatency == 12
\* Number of configure requests a device receives.
MaxRequests == 2

\* [ "$recent_scans" -gt 10 ], [ "$restart_count" -gt 10 ]
RFID_THRESHOLD == 10
\* CHECK_INTERVAL=30: the sleep of the main loop, and the width of the window
\* in which the full health check is due
CHECK_INTERVAL == 30
\* $(date +%s) % 300
SWEEP_PERIOD == 300
\* sleep 5 of check_and_restart_service
RESTART_GRACE == 5
\* sleep 2, sleep 2, sleep 5 of perform_system_health_check
SWEEP_SLEEPS == 9
\* Seconds the commands of one pass of the main loop take beyond its sleeps.
MaxOverhead == 1
\* The time since the latest sweep is counted up to here.
MaxGap == 400
\* Number of times a daemon dies or the address is lost.
MaxFaults == 2
\* this.tagCooldown = 2000
TAG_COOLDOWN == 2000
\* Milliseconds between two instants the model tells apart.
ClockStep == 500
\* Date.now() when the RFID service starts, and the latest instant considered.
ClockStart == 1000
MaxClock == 5000
\* Number of state changes, connections and disconnections the BLE server sees.
MaxBleEvents == 6
\* Number of setServices calls that may be waiting for their completion.
MaxPending == 3

VARIABLES
    configFile,   \* /etc/smartwardrobe/config.json
    tmpFile,      \* /etc/smartwardrobe/config.json.tmp
    retryFile,    \* /tmp/smartwardrobe_wifi_retry : <<>> when absent, <<n>> otherwise
    setupFlag,    \* /tmp/smartwardrobe_setup_mode exists
    modeMarker,   \* /tmp/smartwardrobe-mode : "none" (absent), "ap", "client"
    profiles,     \* connection profiles stored by NetworkManager
    apUp,         \* hostapd is active
    wifiUp,       \* wlan0 is in state "100 (connected)"
    deploy,       \* which installer set the device up
    bootPending,  \* the boot-time service has not been started yet
    run,          \* the controller processes
    writer,       \* the writers of config.json
    streak,       \* failed attempts accounted since the last success, counter
                  \* removal or reconfiguration
    dnsmasqUp,    \* dnsmasq is active
    apIp,         \* wlan0 carries 192.168.4.1
    svc,          \* the services supervised by smartwardrobe-watchdog.sh
    wd,           \* smartwardrobe-watchdog.sh, the health checks
    clk,          \* smartwardrobe-watchdog.sh, the timing of its main loop
    probe,        \* one reachability probe and what the scripts make of it
    store,        \* config.json as the configure handlers build it
    script,       \* one run of a provisioning script, up to its exit status
    bleno,        \* ble_server.js: the adapter, the GATT services, advertising
    rfid          \* rfid_service.js: the tag reads and what was forwarded

\* The state the provisioning scripts and the writers of config.json share.
netVars == <<configFile, tmpFile, retryFile, setupFlag, modeMarker, profiles,
             apUp, wifiUp, deploy, bootPending, run, writer, streak,
             dnsmasqUp, apIp>>

\* The state of the watchdog's health checks, of the reachability probe and of
\* the configure handlers, each of which is examined on its own.
\* The state of the specifications added last, each examined on its own.
extVars == <<script, bleno, rfid>>

sideVars == <<svc, wd, clk, probe, store, extVars>>

vars == <<netVars, sideVars>>

Runs == 1..MaxRuns

-----------------------------------------------------------------------------
(* Files.                                                                  *)

Ssids == {"", "net"}
Passwords == {"", "pw"}

NoFile == [st |-> "absent", ssid |-> "", password |-> ""]
\* A file that was opened with O_TRUNC and whose JSON text is not written out yet.
PartialFile == [st |-> "partial", ssid |-> "", password |-> ""]
Json(s, p) == [st |-> "json", ssid |-> s, password |-> p]
StoredConfigs == {Json(s, p) : s \in Ssids, p \in Passwords}

\* jq -r '.ssid // empty' FILE 2>/dev/null : empty when the text does not parse
jq_ssid(f) == IF f.st = "json" THEN f.ssid ELSE ""
jq_password(f) == IF f.st = "json" THEN f.password ELSE ""

file_exists_Always(f) == TRUE
\* [ -f FILE ]
file_exists(f) == f.st # "absent"

WARDROBE_PROFILE == "SmartWardrobe-WiFi"
\* nmcli dev wifi connect SSID names the profile after the SSID
SSID_PROFILE == "ssid"

-----------------------------------------------------------------------------
(* The retry counter of auto_setup_check.sh.                               *)

get_retry_count(f) == IF f = <<>> THEN 0 ELSE f[1]

increment_retry_count_Stale(count) == <<count>>
\* echo "$count" > FILE with count the value read before, plus one
increment_retry_count(count) == <<count + 1>>

reset_retry_count_Keep(f) == f
\* rm -f FILE
reset_retry_count(f) == <<>>

\* [ "$retry_count" -ge "$((MAX_RETRIES - 1))" ]
max_retries_reached(retry_count) == retry_count >= MAX_RETRIES - 1

\* ping 8.8.8.8 || ping 1.1.1.1
check_internet(p1, p2) == p1 \/ p2

-----------------------------------------------------------------------------
(* Controller processes.                                                   *)

\* res is what the run has found so far:
\*   "flag"      the setup-mode flag exists
\*   "missing"   config.json does not exist
\*   "gone"      config.json had vanished when try_wifi_connection looked
\*   "invalid"   ssid or password is empty
\*   "nonet"     NetworkManager could not be started or would not manage wlan0
\*   "noprofile" the connection profile could not be created
\*   "joinfail"  the profile bring-up failed or timed out
\*   "noinet"    link up, no reachability probe answered
\*   "connected" link up and a probe answered
IdleRun == [kind |-> "none", pc |-> "idle", c |-> 0,
            res |-> "none",
            joins |-> 0,       \* profile bring-ups it performed
            left |-> FALSE]    \* the profile it made was still stored when the attempt returned

NewRun(k, p) == [IdleRun EXCEPT !.kind = k, !.pc = p]

Min(a, b) == IF a < b THEN a ELSE b

Writers == {"http", "ble", "direct"}

\* fd is where the writer's open file descriptor points: the inode at the .tmp
\* path, the inode at the config path, or an inode no path names any more.
IdleWriter == [pc |-> "idle", fd |-> "none", cfg |-> NoFile]
Busy == Cardinality({r \in Runs : run[r].pc # "idle"})
        + Cardinality({w \in Writers : writer[w].pc # "idle"})
CanStart == Busy < MaxBusy

TypeOK ==
    /\ configFile \in StoredConfigs \cup {NoFile, PartialFile}
    /\ tmpFile \in StoredConfigs \cup {NoFile, PartialFile}
    /\ retryFile \in {<<>>} \cup {<<n>> : n \in 1..MaxCount}
    /\ setupFlag \in BOOLEAN
    /\ modeMarker \in {"none", "ap", "client"}
    /\ profiles \subseteq {WARDROBE_PROFILE, SSID_PROFILE}
    /\ apUp \in BOOLEAN
    /\ wifiUp \in BOOLEAN
    /\ deploy \in {"setup_ap", "install"}
    /\ bootPending \in BOOLEAN
    /\ streak \in 0..(MAX_RETRIES + 1)
    /\ dnsmasqUp \in BOOLEAN
    /\ apIp \in BOOLEAN

\* boot, server, rfid: the unit is active; enabled: the RFID unit is enabled;
\* scans: "Scan failed" and "PC/SC error" lines the RFID unit logged in the last
\* 5 minutes; restarts: its NRestarts; reader: pcsc_scan sees the reader;
\* reset: where reset_acr122u is; faults: daemons that have died so far.
SvcIdle == [boot |-> TRUE, server |-> TRUE, rfid |-> FALSE, enabled |-> FALSE,
            scans |-> 0, restarts |-> 0, reader |-> TRUE, reset |-> "idle",
            faults |-> 0]
\* pc: where smartwardrobe-watchdog.sh is; r: the run of the boot script it
\* waits for; fail: a check of the current cycle has failed; report: what
\* the step just taken logged about the unit it looked at; hostapdOk,
\* dnsmasqOk: whether a restart in the network check just made could bring the
\* daemon up.
WdIdle == [pc |-> "off", r |-> 0, fail |-> FALSE, report |-> "none",
           hostapdOk |-> TRUE, dnsmasqOk |-> TRUE]
\* pc: where the main loop is; t: the clock (date +%s) modulo the sweep period;
\* gap: seconds since the latest health sweep began.
ClkIdle == [pc |-> "off", t |-> 0, gap |-> 0]
\* lat1, lat2: seconds until 8.8.8.8 and 1.1.1.1 answer a ping; auto, connect:
\* what check_internet of auto_setup_check.sh and of connect-wifi.sh returned.
ProbeIdle == [lat1 |-> 0, lat2 |-> 0, auto |-> "unset", connect |-> "unset"]
ConfigFields == {"ssid", "password", "apiKey", "backendUrl", "deviceSerial",
                 "deviceMac", "configuredAt", "version"}
\* A field the JSON text does not hold, or holds as null or "", is "".
NoConfig == [f \in ConfigFields |-> ""]
\* file: the fields of config.json; prev: the fields it held before it was last
\* written; n: configure requests received; last: the request that wrote the
\* file; status: how the latest request was answered; code: the HTTP status or
\* the BLE result it was answered with; via: the handler that took it; req,
\* offset: what it carried; attempts: connection attempts the handlers started.
StoreIdle == [file |-> NoConfig, prev |-> NoConfig, n |-> 0, last |-> 0,
              status |-> "none", code |-> "none", via |-> "none",
              req |-> <<>>, offset |-> 0, attempts |-> 0]

\* script: which script runs, where it is, the status it exited with and what
\* it had done by then.
ScriptIdle == [name |-> "none", pc |-> "off", status |-> 0, did |-> "none"]

\* state: the adapter state bleno reports; services: the GATT services are
\* registered; advertising: the device advertises; connected: a central is
\* connected; pending: the setServices calls the stack has not completed yet,
\* oldest first; timers: the 250 ms timers of disconnect handlers that have not
\* fired yet; n: events of the adapter and of centrals so far.
BlenoIdle == [state |-> "unknown", services |-> FALSE, advertising |-> FALSE,
              connected |-> FALSE, pending |-> <<>>, timers |-> 0, n |-> 0]
Tags == {"a", "b"}
\* The latest read: its tag, whether handleRFIDTag handed it to sendToBackend,
\* whether sendToBackend posted it, the time the tag was handed on before
\* (0: never), and whether a read of the tag was suppressed since then.
NoRead == [tag |-> "none", forwarded |-> FALSE, posted |-> FALSE, prev |-> 0,
           afterSkip |-> FALSE]
\* now: Date.now(); lastTagTime: this.lastTagTime, 0 for a tag it has no entry
\* for; backend: this.config holds backendUrl and apiKey; fwd: when each tag
\* was last handed to sendToBackend; skipped: a read of the tag was suppressed
\* since; read: the latest read.
RfidIdle == [now |-> 0, lastTagTime |-> [t \in Tags |-> 0], backend |-> FALSE,
             fwd |-> [t \in Tags |-> 0], skipped |-> [t \in Tags |-> FALSE],
             read |-> NoRead]

ExtIdle ==
    /\ script = ScriptIdle
    /\ bleno = BlenoIdle
    /\ rfid = RfidIdle

SideIdle ==
    /\ svc = SvcIdle
    /\ wd = WdIdle
    /\ clk = ClkIdle
    /\ probe = ProbeIdle
    /\ store = StoreIdle
    /\ ExtIdle

NetInit ==
    /\ configFile \in StoredConfigs \cup {NoFile}
    /\ tmpFile = NoFile
    /\ retryFile = <<>>
    /\ setupFlag = FALSE
    /\ modeMarker = "none"
    /\ profiles = {}
    /\ apUp = FALSE
    /\ wifiUp = FALSE
    /\ deploy \in {"setup_ap", "install"}
    /\ bootPending = TRUE
    /\ run = [r \in Runs |-> IdleRun]
    /\ writer = [w \in Writers |-> IdleWriter]
    /\ streak = 0
    /\ dnsmasqUp = FALSE
    /\ apIp = FALSE

Init == NetInit /\ SideIdle

-----------------------------------------------------------------------------
(* auto_setup_check.sh                                                     *)

\* start_setup_mode.sh: disconnect wlan0, delete every stored WiFi profile,
\* start hostapd, dnsmasq and the setup server (one systemctl start command;
\* started is its outcome).
start_setup_mode(r, started) ==
    /\ wifiUp' = FALSE
    /\ profiles' = {}
    /\ apUp' = (apUp \/ started)
    /\ dnsmasqUp' = (dnsmasqUp \/ started)
    /\ run' = [run EXCEPT ![r] = IdleRun]

\* systemd starts smartwardrobe-autosetup.service at boot.
AutosetupService(r) ==
    /\ deploy = "setup_ap" /\ bootPending
    /\ run[r].pc = "idle" /\ CanStart
    /\ bootPending' = FALSE
    /\ run' = [run EXCEPT ![r] = NewRun("auto", "start")]
    /\ UNCHANGED sideVars
    /\ UNCHANGED <<configFile, tmpFile, retryFile, setupFlag, modeMarker,
                   profiles, apUp, dnsmasqUp, apIp, wifiUp, deploy, writer, streak>>

main_logic_ConfigFirst(flag, config) ==
    IF ~config THEN "missing" ELSE "try"
\* Main logic: if [ -f "$SETUP_MODE_FLAG" ] ... exit 0; if [ ! -f "$CONFIG_FILE" ]
\* ... exit 0; else try_wifi_connection
main_logic(flag, config) ==
    IF flag THEN "flag" ELSE IF ~config THEN "missing" ELSE "try"

\* Main logic up to the call of try_wifi_connection.
AutoCheck(r) ==
    /\ run[r].kind = "auto" /\ run[r].pc = "start"
    /\ LET found == main_logic(setupFlag, file_exists(configFile))
       IN run' = IF found = "try" THEN [run EXCEPT ![r].pc = "try"]
                 ELSE [run EXCEPT ![r].pc = "startap", ![r].res = found]
    /\ UNCHANGED sideVars
    /\ UNCHANGED <<configFile, tmpFile, retryFile, setupFlag, modeMarker,
                   profiles, apUp, dnsmasqUp, apIp, wifiUp, deploy, bootPending, writer, streak>>

\* try_wifi_connection up to the nmcli call.
AutoTry(r) ==
    /\ run[r].kind = "auto" /\ run[r].pc = "try"
    /\ IF ~file_exists(configFile)
         THEN run' = [run EXCEPT ![r].pc = "acct", ![r].res = "gone"]
         ELSE IF jq_ssid(configFile) = "" \/ jq_password(configFile) = ""
           THEN run' = [run EXCEPT ![r].pc = "acct", ![r].res = "invalid"]
           ELSE run' = [run EXCEPT ![r].pc = "join"]
    /\ UNCHANGED sideVars
    /\ UNCHANGED <<configFile, tmpFile, retryFile, setupFlag, modeMarker,
                   profiles, apUp, dnsmasqUp, apIp, wifiUp, deploy, bootPending, writer, streak>>

\* nmcli dev wifi connect, the wait for "100 (connected)" and check_internet.
\* A failed nmcli may or may not leave the profile it made behind.
AutoJoin(r) ==
    /\ run[r].kind = "auto" /\ run[r].pc = "join"
    /\ \E linkUp \in BOOLEAN, p1 \in BOOLEAN, p2 \in BOOLEAN, kept \in BOOLEAN :
         /\ linkUp => kept
         /\ profiles' = IF kept THEN profiles \cup {SSID_PROFILE} ELSE profiles
         /\ wifiUp' = linkUp
         /\ run' = [run EXCEPT
              ![r].joins = 1,
              ![r].res = IF ~linkUp THEN "joinfail"
                         ELSE IF check_internet(p1, p2) THEN "connected" ELSE "noinet",
              ![r].left = (~(linkUp /\ check_internet(p1, p2))) /\ kept,
              ![r].pc = IF linkUp /\ check_internet(p1, p2) THEN "ok" ELSE "acct"]
    /\ UNCHANGED sideVars
    /\ UNCHANGED <<configFile, tmpFile, retryFile, setupFlag, modeMarker,
                   apUp, dnsmasqUp, apIp, deploy, bootPending, writer, streak>>

\* Connection successful: reset_retry_count, stop_setup_mode.sh, exit 0.
AutoSuccess(r) ==
    /\ run[r].kind = "auto" /\ run[r].pc = "ok"
    /\ retryFile' = reset_retry_count(retryFile)
    /\ apUp' = FALSE
    /\ dnsmasqUp' = FALSE
    /\ run' = [run EXCEPT ![r] = IdleRun]
    /\ streak' = 0
    /\ UNCHANGED sideVars
    /\ UNCHANGED <<configFile, tmpFile, setupFlag, modeMarker, profiles,
                   wifiUp, deploy, bootPending, writer, apIp>>

\* Connection failed: retry_count=$(get_retry_count) and the -ge test.
AutoAcct(r) ==
    /\ run[r].kind = "auto" /\ run[r].pc = "acct"
    /\ streak' = Min(streak + 1, MAX_RETRIES + 1)
    /\ run' = [run EXCEPT
         ![r].left = FALSE,
         ![r].pc = IF max_retries_reached(get_retry_count(retryFile))
                   THEN "maxed" ELSE "incr"]
    /\ UNCHANGED sideVars
    /\ UNCHANGED <<configFile, tmpFile, retryFile, setupFlag, modeMarker,
                   profiles, apUp, dnsmasqUp, apIp, wifiUp, deploy, bootPending, writer>>

\* Max retries reached: reset_retry_count, then start_setup_mode.sh.
AutoMaxed(r) ==
    /\ run[r].kind = "auto" /\ run[r].pc = "maxed"
    /\ retryFile' = reset_retry_count(retryFile)
    /\ run' = [run EXCEPT ![r].pc = "startap"]
    /\ streak' = 0
    /\ UNCHANGED sideVars
    /\ UNCHANGED <<configFile, tmpFile, setupFlag, modeMarker, profiles,
                   apUp, dnsmasqUp, apIp, wifiUp, deploy, bootPending, writer>>

\* /home/m3b/start_setup_mode.sh; exit 0
AutoStartAp(r) ==
    /\ run[r].kind = "auto" /\ run[r].pc = "startap"
    /\ \E started \in BOOLEAN : start_setup_mode(r, started)
    /\ UNCHANGED sideVars
    /\ UNCHANGED <<configFile, tmpFile, retryFile, setupFlag, modeMarker,
                   deploy, bootPending, writer, streak, apIp>>

\* increment_retry_count: local count=$(get_retry_count)
AutoIncrRead(r) ==
    /\ run[r].kind = "auto" /\ run[r].pc = "incr"
    /\ run' = [run EXCEPT ![r].pc = "incw", ![r].c = get_retry_count(retryFile)]
    /\ UNCHANGED sideVars
    /\ UNCHANGED <<configFile, tmpFile, retryFile, setupFlag, modeMarker,
                   profiles, apUp, dnsmasqUp, apIp, wifiUp, deploy, bootPending, writer, streak>>

\* increment_retry_count: echo "$count" > FILE; then ( sleep 30; auto_setup_check.sh ) &
\* and exit 1.
AutoIncrWrite(r) ==
    /\ run[r].kind = "auto" /\ run[r].pc = "incw"
    /\ run[r].c < MaxCount
    /\ retryFile' = increment_retry_count(run[r].c)
    /\ run' = [run EXCEPT ![r].pc = "sleep", ![r].c = 0]
    /\ UNCHANGED sideVars
    /\ UNCHANGED <<configFile, tmpFile, setupFlag, modeMarker, profiles,
                   apUp, dnsmasqUp, apIp, wifiUp, deploy, bootPending, writer, streak>>

\* The scheduled retry: the background subshell runs auto_setup_check.sh again.
AutoRetry(r) ==
    /\ run[r].kind = "auto" /\ run[r].pc = "sleep"
    /\ run' = [run EXCEPT ![r] = NewRun("auto", "start")]
    /\ UNCHANGED sideVars
    /\ UNCHANGED <<configFile, tmpFile, retryFile, setupFlag, modeMarker,
                   profiles, apUp, dnsmasqUp, apIp, wifiUp, deploy, bootPending, writer, streak>>

\* wifi_watchdog.sh, one cycle: nothing while hostapd is active; otherwise
\* auto_setup_check.sh & unless wlan0 is connected and 8.8.8.8 answers.
WifiWatchdog(r) ==
    /\ deploy = "setup_ap"
    /\ run[r].pc = "idle" /\ CanStart
    /\ ~apUp
    /\ \E ping \in BOOLEAN :
         /\ ~(wifiUp /\ ping)
         /\ run' = [run EXCEPT ![r] = NewRun("auto", "start")]
    /\ UNCHANGED sideVars
    /\ UNCHANGED <<configFile, tmpFile, retryFile, setupFlag, modeMarker,
                   profiles, apUp, dnsmasqUp, apIp, wifiUp, deploy, bootPending, writer, streak>>

\* force_setup.sh: touch the flag, remove the counter, restart the autosetup service.
ForceSetup(r) ==
    /\ deploy = "setup_ap"
    /\ run[r].pc = "idle" /\ CanStart
    /\ setupFlag' = TRUE
    /\ retryFile' = reset_retry_count(retryFile)
    /\ streak' = 0
    /\ run' = [run EXCEPT ![r] = NewRun("auto", "start")]
    /\ UNCHANGED sideVars
    /\ UNCHANGED <<configFile, tmpFile, modeMarker, profiles, apUp, dnsmasqUp, apIp, wifiUp,
                   deploy, bootPending, writer>>

\* clear_config.sh: remove config, counter and flag, restart the autosetup service.
ClearConfig(r) ==
    /\ deploy = "setup_ap"
    /\ run[r].pc = "idle" /\ CanStart
    /\ configFile' = NoFile
    /\ setupFlag' = FALSE
    /\ retryFile' = reset_retry_count(retryFile)
    /\ streak' = 0
    /\ run' = [run EXCEPT ![r] = NewRun("auto", "start")]
    /\ writer' = [w \in Writers |->
                    IF writer[w].fd = "config" THEN [writer[w] EXCEPT !.fd = "orphan"]
                    ELSE writer[w]]
    /\ UNCHANGED sideVars
    /\ UNCHANGED <<tmpFile, modeMarker, profiles, apUp, dnsmasqUp, apIp, wifiUp, deploy, bootPending>>

-----------------------------------------------------------------------------
(* smartwardrobe-connect-wifi.sh, smartwardrobe-force-ap.sh and the services *)
(* that start them.                                                          *)

\* smartwardrobe-boot.service, ExecStart: connect-wifi.sh if config.json exists,
\* else force-ap.sh
boot_script(r) ==
    run' = [run EXCEPT ![r] =
              IF file_exists(configFile) THEN NewRun("connect", "start")
              ELSE [NewRun("forceap", "fa") EXCEPT !.res = "missing"]]

\* systemd starts smartwardrobe-boot.service at boot.
BootService(r) ==
    /\ deploy = "install" /\ bootPending
    /\ run[r].pc = "idle" /\ CanStart
    /\ bootPending' = FALSE
    /\ boot_script(r)
    /\ UNCHANGED sideVars
    /\ UNCHANGED <<configFile, tmpFile, retryFile, setupFlag, modeMarker,
                   profiles, apUp, dnsmasqUp, apIp, wifiUp, deploy, writer, streak>>

\* connect-wifi.sh: the config checks; force-ap.sh is called when they fail.
CwCheck(r) ==
    /\ run[r].kind = "connect" /\ run[r].pc = "start"
    /\ IF ~file_exists(configFile)
         THEN run' = [run EXCEPT ![r].pc = "fa", ![r].res = "missing"]
         ELSE IF jq_ssid(configFile) = "" \/ jq_password(configFile) = ""
           THEN run' = [run EXCEPT ![r].pc = "fa", ![r].res = "invalid"]
           ELSE run' = [run EXCEPT ![r].pc = "teardown"]
    /\ UNCHANGED sideVars
    /\ UNCHANGED <<configFile, tmpFile, retryFile, setupFlag, modeMarker,
                   profiles, apUp, dnsmasqUp, apIp, wifiUp, deploy, bootPending, writer, streak>>

\* connect-wifi.sh: stop the AP services, reset the interface, start
\* NetworkManager and put wlan0 under its management.  The script runs under
\* set -e: when one of the unguarded commands fails it exits there.
CwTeardown(r) ==
    /\ run[r].kind = "connect" /\ run[r].pc = "teardown"
    /\ apUp' = FALSE
    /\ dnsmasqUp' = FALSE
    /\ apIp' = FALSE
    /\ wifiUp' = FALSE
    /\ \E nmOk \in BOOLEAN :
         run' = [run EXCEPT ![r] = IF nmOk THEN [run[r] EXCEPT !.pc = "profile"]
                                   ELSE IdleRun]
    /\ UNCHANGED sideVars
    /\ UNCHANGED <<configFile, tmpFile, retryFile, setupFlag, modeMarker,
                   profiles, deploy, bootPending, writer, streak>>

\* connect-wifi.sh: delete the old profile, then nmcli con add && con modify && con modify
CwProfile(r) ==
    /\ run[r].kind = "connect" /\ run[r].pc = "profile"
    /\ \E made \in {"ok", "addfail", "modfail"} :
         /\ profiles' = IF made = "addfail" THEN profiles \ {WARDROBE_PROFILE}
                        ELSE profiles \cup {WARDROBE_PROFILE}
         /\ run' = IF made = "ok" THEN [run EXCEPT ![r].pc = "up"]
                   ELSE [run EXCEPT ![r].pc = "fallback", ![r].res = "noprofile"]
    /\ UNCHANGED sideVars
    /\ UNCHANGED <<configFile, tmpFile, retryFile, setupFlag, modeMarker,
                   apUp, dnsmasqUp, apIp, wifiUp, deploy, bootPending, writer, streak>>

after_con_up_Always(linkUp) == "probe"
\* if timeout 60 nmcli con up ...; then sleep 10; if check_internet ... else
\* log "Failed to connect" and fall through to the fallback
after_con_up(linkUp) == IF linkUp THEN "probe" ELSE "fallback"

\* connect-wifi.sh: timeout 60 nmcli con up
CwUp(r) ==
    /\ run[r].kind = "connect" /\ run[r].pc = "up"
    /\ \E linkUp \in BOOLEAN :
         /\ wifiUp' = linkUp
         /\ run' = [run EXCEPT
              ![r].joins = run[r].joins + 1,
              ![r].res = IF linkUp THEN run[r].res ELSE "joinfail",
              ![r].pc = after_con_up(linkUp)]
    /\ UNCHANGED sideVars
    /\ UNCHANGED <<configFile, tmpFile, retryFile, setupFlag, modeMarker,
                   profiles, apUp, dnsmasqUp, apIp, deploy, bootPending, writer, streak>>

\* check_internet of connect-wifi.sh: ping -c 1 -W 10 8.8.8.8
connect_check_internet(p1, p2) == p1

\* connect-wifi.sh: after sleep 10, check_internet
CwProbe(r) ==
    /\ run[r].kind = "connect" /\ run[r].pc = "probe"
    /\ \E p1 \in BOOLEAN, p2 \in BOOLEAN :
         run' = [run EXCEPT
              ![r].res = IF connect_check_internet(p1, p2) THEN "connected" ELSE "noinet",
              ![r].pc = IF connect_check_internet(p1, p2) THEN "ok" ELSE "fallback"]
    /\ UNCHANGED sideVars
    /\ UNCHANGED <<configFile, tmpFile, retryFile, setupFlag, modeMarker, profiles,
                   apUp, dnsmasqUp, apIp, wifiUp, deploy, bootPending, writer, streak>>

\* connect-wifi.sh: echo "client" > /tmp/smartwardrobe-mode; exit 0
CwSuccess(r) ==
    /\ run[r].kind = "connect" /\ run[r].pc = "ok"
    /\ modeMarker' = "client"
    /\ run' = [run EXCEPT ![r] = IdleRun]
    /\ UNCHANGED sideVars
    /\ UNCHANGED <<configFile, tmpFile, retryFile, setupFlag, profiles,
                   apUp, dnsmasqUp, apIp, wifiUp, deploy, bootPending, writer, streak>>

\* connect-wifi.sh: WiFi failed: delete the profile, stop NetworkManager, call force-ap.sh
CwFallback(r) ==
    /\ run[r].kind = "connect" /\ run[r].pc = "fallback"
    /\ profiles' = profiles \ {WARDROBE_PROFILE}
    /\ wifiUp' = FALSE
    /\ run' = [run EXCEPT ![r].pc = "fa",
                          ![r].left = (WARDROBE_PROFILE \in profiles')]
    /\ UNCHANGED sideVars
    /\ UNCHANGED <<configFile, tmpFile, retryFile, setupFlag, modeMarker,
                   apUp, dnsmasqUp, apIp, deploy, bootPending, writer, streak>>

\* force-ap.sh: stop NetworkManager, kill wpa_supplicant/hostapd/dnsmasq, reset
\* the interface and give it 192.168.4.1; exit 1 when the address cannot be set.
FaReset(r) ==
    /\ run[r].kind \in {"connect", "forceap"} /\ run[r].pc = "fa"
    /\ apUp' = FALSE
    /\ dnsmasqUp' = FALSE
    /\ wifiUp' = FALSE
    /\ \E ipOk \in BOOLEAN :
         /\ apIp' = ipOk
         /\ run' = [run EXCEPT ![r] = IF ipOk THEN [run[r] EXCEPT !.pc = "fa_daemons"]
                                      ELSE IdleRun]
    /\ UNCHANGED sideVars
    /\ UNCHANGED <<configFile, tmpFile, retryFile, setupFlag, modeMarker,
                   profiles, deploy, bootPending, writer, streak>>

ap_verified_Always(hostapdActive, dnsmasqActive) == TRUE
\* systemctl is-active hostapd.service && systemctl is-active dnsmasq.service
ap_verified(hostapdActive, dnsmasqActive) == hostapdActive /\ dnsmasqActive

\* force-ap.sh: start hostapd, start dnsmasq (exit 1 when a start fails), then
\* write "ap" to the mode marker if both are active, else exit 1.
FaDaemons(r) ==
    /\ run[r].kind \in {"connect", "forceap"} /\ run[r].pc = "fa_daemons"
    /\ \E hostapdOk \in BOOLEAN, dnsmasqOk \in BOOLEAN,
          hostapdActive \in BOOLEAN, dnsmasqActive \in BOOLEAN :
         /\ apUp' = (hostapdOk /\ (dnsmasqOk => hostapdActive))
         /\ dnsmasqUp' = (hostapdOk /\ dnsmasqOk /\ dnsmasqActive)
         /\ modeMarker' = IF hostapdOk /\ dnsmasqOk /\ ap_verified(apUp', dnsmasqUp')
                          THEN "ap" ELSE modeMarker
    /\ run' = [run EXCEPT ![r] = IdleRun]
    /\ UNCHANGED sideVars
    /\ UNCHANGED <<configFile, tmpFile, retryFile, setupFlag, profiles,
                   wifiUp, deploy, bootPending, writer, streak, apIp>>

check_network_connectivity_NoDnsmasq(r, hostapdOk, dnsmasqOk) ==
    LET spawn == IF modeMarker = "ap" THEN ~apIp
                 ELSE IF modeMarker = "client" THEN FALSE
                 ELSE ~file_exists(configFile)
    IN /\ apUp' = IF modeMarker = "ap" /\ ~apUp THEN hostapdOk ELSE apUp
       /\ spawn => (run[r].pc = "idle" /\ CanStart)
       /\ run' = IF spawn THEN [run EXCEPT ![r] = NewRun("forceap", "fa")]
                 ELSE run
       /\ UNCHANGED <<configFile, tmpFile, retryFile, setupFlag, modeMarker, profiles,
                      wifiUp, deploy, bootPending, writer, streak, apIp, dnsmasqUp>>
\* smartwardrobe-watchdog.sh, check_network_connectivity.  In mode "ap" it
\* restarts hostapd if that is not active, restarts dnsmasq if that is not
\* active and runs force-ap.sh & when 192.168.4.1 is missing; in mode "client"
\* it pings and logs; with no known mode it runs force-ap.sh & when there is no
\* config.json.  hostapdOk and dnsmasqOk say whether a restart brings the
\* daemon up.
check_network_connectivity(r, hostapdOk, dnsmasqOk) ==
    LET spawn == IF modeMarker = "ap" THEN ~apIp
                 ELSE IF modeMarker = "client" THEN FALSE
                 ELSE ~file_exists(configFile)
    IN /\ apUp' = IF modeMarker = "ap" /\ ~apUp THEN hostapdOk ELSE apUp
       /\ dnsmasqUp' = IF modeMarker = "ap" /\ ~dnsmasqUp THEN dnsmasqOk ELSE dnsmasqUp
       /\ spawn => (run[r].pc = "idle" /\ CanStart)
       /\ run' = IF spawn THEN [run EXCEPT ![r] = NewRun("forceap", "fa")]
                 ELSE run
       /\ UNCHANGED <<configFile, tmpFile, retryFile, setupFlag, modeMarker,
                      profiles, wifiUp, deploy, bootPending, writer, streak, apIp>>

CheckNetworkConnectivity(r) ==
    /\ deploy = "install"
    /\ \E hostapdOk \in BOOLEAN, dnsmasqOk \in BOOLEAN :
         check_network_connectivity(r, hostapdOk, dnsmasqOk)
    /\ UNCHANGED sideVars

-----------------------------------------------------------------------------
(* The writers of config.json.                                             *)

RequestFields == {"", "x"}

\* rename(2) of the .tmp path over the config path, and unlink of the config
\* path, as seen by the writers that hold an open descriptor.
fd_after_rename(fd) == IF fd = "tmp" THEN "config"
                       ELSE IF fd = "config" THEN "orphan" ELSE fd

\* server.js POST /api/configure: 400 unless ssid, password and apiKey are
\* given; else writeFileSync(CONFIG_PATH + '.tmp') opens and truncates the file.
HttpOpen ==
    /\ writer["http"].pc = "idle" /\ CanStart
    /\ \E ssid \in Ssids, password \in Passwords, apiKey \in RequestFields :
         IF ssid = "" \/ password = "" \/ apiKey = ""
         THEN UNCHANGED <<tmpFile, writer>>
         ELSE /\ tmpFile' = PartialFile
              /\ writer' = [writer EXCEPT !["http"] =
                              [pc |-> "open", fd |-> "tmp", cfg |-> Json(ssid, password)]]
    /\ UNCHANGED sideVars
    /\ UNCHANGED <<configFile, retryFile, setupFlag, modeMarker, profiles,
                   apUp, dnsmasqUp, apIp, wifiUp, deploy, bootPending, run, streak>>

\* ble_server.js WifiConfigCharacteristic.onWriteRequest: an error result for
\* a non-zero offset or a payload without ssid or password; else the same
\* writeFileSync(CONFIG_PATH + '.tmp').
BleOpen ==
    /\ writer["ble"].pc = "idle" /\ CanStart
    /\ \E offset \in {0, 1}, ssid \in Ssids, password \in Passwords :
         IF offset > 0 \/ ssid = "" \/ password = ""
         THEN UNCHANGED <<tmpFile, writer>>
         ELSE /\ tmpFile' = PartialFile
              /\ writer' = [writer EXCEPT !["ble"] =
                              [pc |-> "open", fd |-> "tmp", cfg |-> Json(ssid, password)]]
    /\ UNCHANGED sideVars
    /\ UNCHANGED <<configFile, retryFile, setupFlag, modeMarker, profiles,
                   apUp, dnsmasqUp, apIp, wifiUp, deploy, bootPending, run, streak>>

\* POST /configure of the plain http server: 400 unless ssid, password and
\* apiKey are given; else writeFileSync(CONFIG_PATH) opens and truncates
\* config.json itself.
DirectOpen ==
    /\ deploy = "install"
    /\ writer["direct"].pc = "idle" /\ CanStart
    /\ \E ssid \in Ssids, password \in Passwords, apiKey \in RequestFields :
         IF ssid = "" \/ password = "" \/ apiKey = ""
         THEN UNCHANGED <<configFile, writer>>
         ELSE /\ configFile' = PartialFile
              /\ writer' = [writer EXCEPT !["direct"] =
                              [pc |-> "open", fd |-> "config", cfg |-> Json(ssid, password)]]
    /\ UNCHANGED sideVars
    /\ UNCHANGED <<tmpFile, retryFile, setupFlag, modeMarker, profiles,
                   apUp, dnsmasqUp, apIp, wifiUp, deploy, bootPending, run, streak>>

\* writeFileSync: the JSON text goes to the inode the descriptor is open on.
WriterWrite(w) ==
    /\ writer[w].pc = "open"
    /\ tmpFile' = IF writer[w].fd = "tmp" THEN writer[w].cfg ELSE tmpFile
    /\ configFile' = IF writer[w].fd = "config" THEN writer[w].cfg ELSE configFile
    /\ writer' = [writer EXCEPT ![w].pc = "written", ![w].fd = "none"]
    /\ UNCHANGED sideVars
    /\ UNCHANGED <<retryFile, setupFlag, modeMarker, profiles, apUp, dnsmasqUp, apIp, wifiUp,
                   deploy, bootPending, run, streak>>

\* renameSync(CONFIG_PATH + '.tmp', CONFIG_PATH); it throws when the .tmp path
\* is gone, and the handler then answers with its error result.
WriterRename(w) ==
    /\ w \in {"http", "ble"}
    /\ writer[w].pc = "written"
    /\ IF ~file_exists(tmpFile)
       THEN /\ writer' = [writer EXCEPT ![w] = IdleWriter]
            /\ UNCHANGED <<configFile, tmpFile, streak>>
       ELSE /\ configFile' = tmpFile
            /\ tmpFile' = NoFile
            /\ streak' = 0
            /\ writer' = [v \in Writers |->
                 IF v = w THEN [writer[w] EXCEPT !.pc = "saved"]
                 ELSE [writer[v] EXCEPT !.fd = fd_after_rename(writer[v].fd)]]
    /\ UNCHANGED sideVars
    /\ UNCHANGED <<retryFile, setupFlag, modeMarker, profiles, apUp, dnsmasqUp, apIp, wifiUp,
                   deploy, bootPending, run>>

\* The writer's process is killed while it writes or before it renames.
WriterKilled(w) ==
    /\ writer[w].pc \in {"open", "written"}
    /\ writer' = [writer EXCEPT ![w] = IdleWriter]
    /\ UNCHANGED sideVars
    /\ UNCHANGED <<configFile, tmpFile, retryFile, setupFlag, modeMarker, profiles,
                   apUp, dnsmasqUp, apIp, wifiUp, deploy, bootPending, run, streak>>

\* server.js: try { unlinkSync(retry file); unlinkSync(setup-mode flag) } catch {}
\* The first unlinkSync throws when the retry file does not exist, and the
\* second is then not reached.
HttpUnlink ==
    /\ writer["http"].pc = "saved"
    /\ IF retryFile = <<>>
       THEN UNCHANGED <<retryFile, setupFlag, streak>>
       ELSE /\ retryFile' = reset_retry_count(retryFile)
            /\ setupFlag' = FALSE
            /\ streak' = 0
    /\ writer' = [writer EXCEPT !["http"].pc = "connect"]
    /\ UNCHANGED sideVars
    /\ UNCHANGED <<configFile, tmpFile, modeMarker, profiles,
                   apUp, dnsmasqUp, apIp, wifiUp, deploy, bootPending, run>>

\* server.js: delete the profiles stored for the SSID, then nmcli dev wifi
\* connect in the background (timeout 45 s)
HttpConnect ==
    /\ writer["http"].pc = "connect"
    /\ \E ok \in BOOLEAN, kept \in BOOLEAN :
         /\ ok => kept
         /\ wifiUp' = ok
         /\ profiles' = IF kept THEN profiles \cup {SSID_PROFILE}
                        ELSE profiles \ {SSID_PROFILE}
         /\ writer' = [writer EXCEPT !["http"] =
                         IF ok THEN [writer["http"] EXCEPT !.pc = "stable"]
                         ELSE IdleWriter]
    /\ UNCHANGED sideVars
    /\ UNCHANGED <<configFile, tmpFile, retryFile, setupFlag, modeMarker,
                   apUp, dnsmasqUp, apIp, deploy, bootPending, run, streak>>

stable_connection_Always(stateErr, connected) == TRUE
\* if (!stateErr && stateOut.includes('100 (connected)'))
stable_connection(stateErr, connected) == ~stateErr /\ connected

\* server.js: 15 s later, nmcli state of wlan0
HttpStable ==
    /\ writer["http"].pc = "stable"
    /\ \E stateErr \in BOOLEAN :
         writer' = [writer EXCEPT !["http"] =
                      IF stable_connection(stateErr, wifiUp)
                      THEN [writer["http"] EXCEPT !.pc = "shutdown"]
                      ELSE IdleWriter]
    /\ UNCHANGED sideVars
    /\ UNCHANGED <<configFile, tmpFile, retryFile, setupFlag, modeMarker, profiles,
                   apUp, dnsmasqUp, apIp, wifiUp, deploy, bootPending, run, streak>>

\* server.js: 10 s later, systemctl stop smartwardrobe-setup hostapd dnsmasq
HttpShutdown ==
    /\ writer["http"].pc = "shutdown"
    /\ apUp' = FALSE
    /\ dnsmasqUp' = FALSE
    /\ writer' = [writer EXCEPT !["http"] = IdleWriter]
    /\ UNCHANGED sideVars
    /\ UNCHANGED <<configFile, tmpFile, retryFile, setupFlag, modeMarker, profiles,
                   wifiUp, deploy, bootPending, run, streak, apIp>>

\* ble_server.js: nmcli device wifi connect in the background (timeout 20 s)
BleConnect ==
    /\ writer["ble"].pc = "saved"
    /\ \E ok \in BOOLEAN, kept \in BOOLEAN :
         /\ ok => kept
         /\ wifiUp' = ok
         /\ profiles' = IF kept THEN profiles \cup {SSID_PROFILE} ELSE profiles
    /\ writer' = [writer EXCEPT !["ble"] = IdleWriter]
    /\ UNCHANGED sideVars
    /\ UNCHANGED <<configFile, tmpFile, retryFile, setupFlag, modeMarker,
                   apUp, dnsmasqUp, apIp, deploy, bootPending, run, streak>>

\* POST /configure of the plain http server: 2 s after the answer it runs
\* smartwardrobe-connect-wifi.sh.
DirectSwitch(r) ==
    /\ writer["direct"].pc = "written"
    /\ run[r].pc = "idle"
    /\ run' = [run EXCEPT ![r] = NewRun("connect", "start")]
    /\ writer' = [writer EXCEPT !["direct"] = IdleWriter]
    /\ UNCHANGED sideVars
    /\ UNCHANGED <<configFile, tmpFile, retryFile, setupFlag, modeMarker, profiles,
                   apUp, dnsmasqUp, apIp, wifiUp, deploy, bootPending, streak>>

Next ==
    \/ \E r \in Runs :
        \/ AutosetupService(r)
        \/ AutoCheck(r)
        \/ AutoTry(r)
        \/ AutoJoin(r)
        \/ AutoSuccess(r)
        \/ AutoAcct(r)
        \/ AutoMaxed(r)
        \/ AutoStartAp(r)
        \/ AutoIncrRead(r)
        \/ AutoIncrWrite(r)
        \/ AutoRetry(r)
        \/ WifiWatchdog(r)
        \/ ForceSetup(r)
        \/ ClearConfig(r)
        \/ BootService(r)
        \/ CwCheck(r)
        \/ CwTeardown(r)
        \/ CwProfile(r)
        \/ CwUp(r)
        \/ CwProbe(r)
        \/ CwSuccess(r)
        \/ CwFallback(r)
        \/ FaReset(r)
        \/ FaDaemons(r)
        \/ CheckNetworkConnectivity(r)
        \/ DirectSwitch(r)
    \/ \E w \in Writers :
        \/ WriterWrite(w)
        \/ WriterRename(w)
        \/ WriterKilled(w)
    \/ HttpOpen
    \/ BleOpen
    \/ DirectOpen
    \/ HttpUnlink
    \/ HttpConnect
    \/ HttpStable
    \/ HttpShutdown
    \/ BleConnect

Spec == Init /\ [][Next]_vars

-----------------------------------------------------------------------------
(* The reachability probe on its own: two endpoints that answer after lat1   *)
(* and lat2 seconds, and the two check_internet functions applied to them.   *)

\* ping -c 1 -W 10 HOST succeeds when the answer arrives within the wait
ping(lat) == lat <= PING_WAIT

exit_status(ok) == IF ok THEN "ok" ELSE "fail"

ProbeInit ==
    /\ NetInit
    /\ svc = SvcIdle /\ wd = WdIdle /\ clk = ClkIdle /\ store = StoreIdle
    /\ ExtIdle
    /\ \E l1 \in 0..MaxLatency, l2 \in 0..MaxLatency :
         probe = [ProbeIdle EXCEPT !.lat1 = l1, !.lat2 = l2]

\* auto_setup_check.sh calls check_internet
ProbeAuto ==
    /\ probe.auto = "unset"
    /\ probe' = [probe EXCEPT
         !.auto = exit_status(check_internet(ping(probe.lat1), ping(probe.lat2)))]
    /\ UNCHANGED <<netVars, svc, wd, clk, store, extVars>>

\* smartwardrobe-connect-wifi.sh calls check_internet
ProbeConnect ==
    /\ probe.connect = "unset"
    /\ probe' = [probe EXCEPT
         !.connect = exit_status(connect_check_internet(ping(probe.lat1), ping(probe.lat2)))]
    /\ UNCHANGED <<netVars, svc, wd, clk, store, extVars>>

ProbeNext == ProbeAuto \/ ProbeConnect

ProbeSpec == ProbeInit /\ [][ProbeNext]_vars

-----------------------------------------------------------------------------
(* The configure handlers on their own: what they put into config.json.     *)
(* The k-th request carries the value ReqValue[k] in the fields it fills in  *)
(* and is served at the time Stamp[k].                                       *)

ReqValue == <<"r1", "r2", "r3">>
Stamp == <<"t1", "t2", "t3">>
DEVICE_SERIAL == "0001"
DEVICE_MAC == "2c:cf:67:c6:97:2c"
HTTP_BACKEND_DEFAULT == "https://your-backend.com"
BLE_BACKEND_DEFAULT == "http://localhost:3001"
\* deviceSerial: '0001'
PLAIN_DEVICE_SERIAL == "0001"

RequestKeys == {"ssid", "password", "apiKey", "backendUrl", "deviceSerial"}
\* The requests the k-th request may be: every field omitted or filled in.
Requests(k) == [RequestKeys -> {"", ReqValue[k]}]

http_config_Merge(req, k) ==
    [f \in ConfigFields |->
       IF f \in {"ssid", "password", "apiKey"} THEN req[f]
       ELSE IF f = "backendUrl"
         THEN (IF req[f] # "" THEN req[f]
               ELSE IF store.file[f] # "" THEN store.file[f] ELSE HTTP_BACKEND_DEFAULT)
       ELSE IF f = "deviceSerial" THEN DEVICE_SERIAL
       ELSE IF f = "deviceMac" THEN DEVICE_MAC
       ELSE IF f = "configuredAt" THEN Stamp[k]
       ELSE "2.0"]
\* server.js: const config = { ssid, password, apiKey, backendUrl: backendUrl ||
\* 'https://your-backend.com', deviceSerial, deviceMac, configuredAt, version }
http_config(req, k) ==
    [f \in ConfigFields |->
       IF f \in {"ssid", "password", "apiKey"} THEN req[f]
       ELSE IF f = "backendUrl"
         THEN (IF req[f] # "" THEN req[f] ELSE HTTP_BACKEND_DEFAULT)
       ELSE IF f = "deviceSerial" THEN DEVICE_SERIAL
       ELSE IF f = "deviceMac" THEN DEVICE_MAC
       ELSE IF f = "configuredAt" THEN Stamp[k]
       ELSE "2.0"]

\* ble_server.js: cfg = JSON.parse(s) for a payload that starts with '{', else
\* the ';'-separated fields with backendUrl || 'http://localhost:3001'
ble_config(req, json) ==
    [f \in ConfigFields |->
       IF f \notin RequestKeys THEN ""
       ELSE IF f = "backendUrl" /\ ~json /\ req[f] = "" THEN BLE_BACKEND_DEFAULT
       ELSE req[f]]

ConfigInit ==
    /\ NetInit
    /\ svc = SvcIdle /\ wd = WdIdle /\ clk = ClkIdle /\ probe = ProbeIdle
    /\ ExtIdle
    /\ store = StoreIdle

\* What the configure handlers leave alone.
configRest == <<configFile, tmpFile, modeMarker, profiles, apUp, wifiUp, deploy,
                bootPending, run, writer, dnsmasqUp, apIp, svc, wd, clk, probe,
                extVars>>

http_valid_NoApiKey(req) == req["ssid"] # "" /\ req["password"] # ""
\* server.js, ble_server.js /configure: if (!ssid || !password || !apiKey) 400
http_valid(req) == req["ssid"] # "" /\ req["password"] # "" /\ req["apiKey"] # ""

\* ble_server.js onWriteRequest: RESULT_ATTR_NOT_LONG for an offset above 0,
\* RESULT_UNLIKELY_ERROR if (!cfg.ssid || !cfg.password), else go on
ble_valid(req, offset) ==
    IF offset > 0 THEN "RESULT_ATTR_NOT_LONG"
    ELSE IF req["ssid"] = "" \/ req["password"] = "" THEN "RESULT_UNLIKELY_ERROR"
    ELSE "ok"

\* The request is answered with an error and nothing else happens.
Rejected(via, req, offset, code) ==
    /\ store' = [store EXCEPT !.n = @ + 1, !.status = "rejected", !.code = code,
                              !.via = via, !.req = req, !.offset = offset]
    /\ UNCHANGED <<retryFile, setupFlag, streak>>

\* The request is answered with code after cfg was written over config.json
\* and a connection attempt was started.
Saved(via, req, code, cfg) ==
    store' = [file |-> cfg, prev |-> store.file, n |-> store.n + 1,
              last |-> store.n + 1, status |-> "saved", code |-> code,
              via |-> via, req |-> req, offset |-> 0,
              attempts |-> store.attempts + 1]

\* server.js, POST /api/configure: 400 unless ssid, password and apiKey are
\* given, else the new config object is written over config.json, the retry
\* file and the setup-mode flag are unlinked (the second only if the first was
\* there) and nmcli is started in the background.
HttpConfigure ==
    /\ store.n < MaxRequests
    /\ \E req \in Requests(store.n + 1) :
         IF ~http_valid(req)
         THEN Rejected("http", req, 0, "400")
         ELSE /\ Saved("http", req, "200", http_config(req, store.n + 1))
              /\ IF retryFile = <<>>
                 THEN UNCHANGED <<retryFile, setupFlag, streak>>
                 ELSE /\ retryFile' = reset_retry_count(retryFile)
                      /\ setupFlag' = FALSE
                      /\ streak' = 0
    /\ UNCHANGED configRest

\* ble_server.js, onWriteRequest: an error result for a non-zero offset or
\* unless ssid and password are given, else cfg is written over config.json
\* and nmcli is started in the background.
BleWrite ==
    /\ store.n < MaxRequests
    /\ \E req \in Requests(store.n + 1), json \in BOOLEAN, offset \in {0, 1} :
         IF ble_valid(req, offset) # "ok"
         THEN Rejected("ble", req, offset, ble_valid(req, offset))
         ELSE /\ Saved("ble", req, "RESULT_SUCCESS", ble_config(req, json))
              /\ UNCHANGED <<retryFile, setupFlag, streak>>
    /\ UNCHANGED configRest

ConfigNext == HttpConfigure \/ BleWrite

ConfigSpec == ConfigInit /\ [][ConfigNext]_vars

\* ble_server.js, POST /configure of the plain http server: const config =
\* { ssid, password, apiKey, deviceSerial: '0001', configuredAt }
plain_config(req, k) ==
    [f \in ConfigFields |->
       IF f \in {"ssid", "password", "apiKey"} THEN req[f]
       ELSE IF f = "deviceSerial" THEN PLAIN_DEVICE_SERIAL
       ELSE IF f = "configuredAt" THEN Stamp[k]
       ELSE ""]

\* POST /configure of the plain http server: 400 unless ssid, password and
\* apiKey are given, else config is written over config.json and
\* connect-wifi.sh is set to start after 2 s.
PlainConfigure ==
    /\ store.n < MaxRequests
    /\ \E req \in Requests(store.n + 1) :
         IF ~http_valid(req)
         THEN Rejected("plain", req, 0, "400")
         ELSE /\ Saved("plain", req, "200", plain_config(req, store.n + 1))
              /\ UNCHANGED <<retryFile, setupFlag, streak>>
    /\ UNCHANGED configRest

\* The configure handlers of the three servers, taken with a retry counter or
\* a setup-mode flag that earlier connection attempts may have left.
ValidateInit ==
    /\ configFile \in StoredConfigs \cup {NoFile}
    /\ tmpFile = NoFile
    /\ retryFile \in {<<>>, <<1>>}
    /\ setupFlag \in BOOLEAN
    /\ modeMarker = "none"
    /\ profiles = {}
    /\ apUp = FALSE
    /\ wifiUp = FALSE
    /\ deploy \in {"setup_ap", "install"}
    /\ bootPending = TRUE
    /\ run = [r \in Runs |-> IdleRun]
    /\ writer = [w \in Writers |-> IdleWriter]
    /\ streak = 0
    /\ dnsmasqUp = FALSE
    /\ apIp = FALSE
    /\ SideIdle

ValidateNext == HttpConfigure \/ BleWrite \/ PlainConfigure

ValidateSpec == ValidateInit /\ [][ValidateNext]_vars

-----------------------------------------------------------------------------
(* smartwardrobe-watchdog.sh: the health checks of one cycle after the       *)
(* other, the services they supervise, the boot script and force-ap.sh that  *)
(* they start, and reset_acr122u.  The time between the cycles is left out   *)
(* here; it is the subject of the next section.                              *)

RfidCounts == {0, RFID_THRESHOLD, RFID_THRESHOLD + 1}

\* The shared state no step of the watchdog itself writes.
netRest == <<configFile, tmpFile, retryFile, setupFlag, profiles, wifiUp,
             deploy, bootPending, writer, streak>>

errexit_On == TRUE
\* #!/bin/bash without set -e: the script goes on after a command that failed
errexit == FALSE

\* Where the script is after a command: at next, unless errexit has ended it.
after_command(ok, next) == IF errexit /\ ~ok THEN "exited" ELSE next

check_and_restart_service_Always(active, cmdOk, activeAfter) ==
    IF cmdOk
      THEN [active |-> activeAfter,
            report |-> IF activeAfter THEN "restarted" ELSE "still_down",
            ok |-> activeAfter]
      ELSE [active |-> FALSE, report |-> "command_failed", ok |-> FALSE]
\* check_and_restart_service: nothing to do for an active unit; else systemctl
\* restart, and when that command succeeded, sleep 5 and is-active again.
\* cmdOk: the restart command succeeds; activeAfter: the unit is active 5 s later.
check_and_restart_service(active, cmdOk, activeAfter) ==
    IF active THEN [active |-> TRUE, report |-> "running", ok |-> TRUE]
    ELSE IF cmdOk
      THEN [active |-> activeAfter,
            report |-> IF activeAfter THEN "restarted" ELSE "still_down",
            ok |-> activeAfter]
      ELSE [active |-> FALSE, report |-> "command_failed", ok |-> FALSE]

\* $(journalctl ... | grep -c PATTERN || echo "0"): grep -c prints the count and
\* fails when the count is 0, so that a second line "0" follows.
grep_count_or_zero(c) == IF c = 0 THEN <<0, 0>> ELSE <<c>>

\* [ "$text" -gt n ]: an error, hence false, when the text is not one integer
test_gt(text, n) == Len(text) = 1 /\ text[1] > n

\* check_rfid_service_health: TRUE when it starts reset_acr122u & and returns 1
check_rfid_service_health(enabled, active, scans, restarts, reader) ==
    /\ enabled
    /\ active
    /\ \/ test_gt(grep_count_or_zero(scans), RFID_THRESHOLD)
       \/ restarts > RFID_THRESHOLD
       \/ ~reader

\* The watchdog at pc after a step that logged report.
WdAt(pc, fail, report) ==
    [pc |-> pc, r |-> 0, fail |-> fail, report |-> report,
     hostapdOk |-> TRUE, dnsmasqOk |-> TRUE]

\* The watchdog has slept its first 60 s and begins the initial health check.
\* The boot service has ended: failed, or with the access point up, or with
\* wlan0 connected.  The devices considered are those without a reader, in
\* every one of these modes, and those with a reader that are connected.
WdInit ==
    /\ tmpFile = NoFile /\ retryFile = <<>> /\ setupFlag = FALSE /\ profiles = {}
    /\ deploy = "install" /\ bootPending = FALSE /\ streak = 0
    /\ run = [r \in Runs |-> IdleRun]
    /\ writer = [w \in Writers |-> IdleWriter]
    /\ clk = ClkIdle /\ probe = ProbeIdle /\ store = StoreIdle
    /\ ExtIdle
    /\ wd = WdAt("boot", FALSE, "none")
    /\ \E cfg \in {NoFile, Json("net", "pw")}, mode \in {"none", "ap", "client"} :
         /\ mode = "client" => cfg # NoFile
         /\ configFile = cfg
         /\ modeMarker = mode
         /\ apUp = (mode = "ap") /\ dnsmasqUp = (mode = "ap") /\ apIp = (mode = "ap")
         /\ wifiUp = (mode = "client")
         /\ \E en \in BOOLEAN, sc \in RfidCounts,
               rs \in {RFID_THRESHOLD, RFID_THRESHOLD + 1}, rd \in BOOLEAN :
              /\ ~en => (sc = 0 /\ rs = RFID_THRESHOLD /\ rd)
              /\ en => (mode = "client")
              /\ svc = [SvcIdle EXCEPT !.boot = (mode # "none"), !.enabled = en,
                                       !.rfid = en, !.scans = sc, !.restarts = rs,
                                       !.reader = rd]

\* A daemon dies, or wlan0 loses its address.
Fault ==
    /\ svc.faults < MaxFaults
    /\ \/ /\ svc.server
          /\ svc' = [svc EXCEPT !.server = FALSE, !.faults = @ + 1]
          /\ UNCHANGED <<apUp, dnsmasqUp, apIp>>
       \/ /\ svc.rfid
          /\ svc' = [svc EXCEPT !.rfid = FALSE, !.faults = @ + 1]
          /\ UNCHANGED <<apUp, dnsmasqUp, apIp>>
       \/ /\ apUp
          /\ apUp' = FALSE
          /\ svc' = [svc EXCEPT !.faults = @ + 1]
          /\ UNCHANGED <<dnsmasqUp, apIp>>
       \/ /\ dnsmasqUp
          /\ dnsmasqUp' = FALSE
          /\ svc' = [svc EXCEPT !.faults = @ + 1]
          /\ UNCHANGED <<apUp, apIp>>
       \/ /\ apIp
          /\ apIp' = FALSE
          /\ svc' = [svc EXCEPT !.faults = @ + 1]
          /\ UNCHANGED <<apUp, dnsmasqUp>>
    /\ UNCHANGED <<netRest, modeMarker, run, wd, clk, probe, store, extVars>>

\* Main loop, after sleep 30: the quick check of the web server, then the test
\* whether the full health check is due.
WdTick ==
    /\ wd.pc = "sleep"
    /\ \E cmdOk \in BOOLEAN, activeAfter \in BOOLEAN, due \in BOOLEAN :
         LET res == check_and_restart_service(svc.server, cmdOk, activeAfter)
             next == IF due THEN "boot" ELSE "sleep"
         IN /\ svc' = [svc EXCEPT !.server = res.active]
            /\ wd' = IF svc.server THEN WdAt(next, FALSE, "none")
                     ELSE WdAt(after_command(res.ok, next), ~res.ok, res.report)
    /\ UNCHANGED <<netVars, clk, probe, store, extVars>>

\* perform_system_health_check: check_and_restart_service smartwardrobe-boot.service.
\* Restarting the oneshot unit runs the boot script; systemctl waits for it.
WdBoot(r) ==
    /\ wd.pc = "boot"
    /\ IF svc.boot
         THEN /\ wd' = WdAt("server", wd.fail, "running")
              /\ UNCHANGED run
         ELSE /\ run[r].pc = "idle" /\ CanStart
              /\ boot_script(r)
              /\ wd' = [WdAt("bootwait", wd.fail, "none") EXCEPT !.r = r]
    /\ UNCHANGED <<netRest, modeMarker, apUp, dnsmasqUp, apIp, svc, clk, probe, store, extVars>>

\* The boot script has ended: the outcome of the restart command, sleep 5, is-active.
\* The script ends with status 0 only after it has written the mode marker.
WdBootDone ==
    /\ wd.pc = "bootwait" /\ run[wd.r].pc = "idle"
    /\ \E cmdOk \in BOOLEAN, activeAfter \in BOOLEAN :
         LET res == check_and_restart_service(FALSE, cmdOk, activeAfter)
         IN /\ cmdOk => modeMarker \in {"ap", "client"}
            /\ svc' = [svc EXCEPT !.boot = res.active]
            /\ wd' = WdAt(after_command(res.ok, "server"), wd.fail \/ ~res.ok, res.report)
    /\ UNCHANGED <<netVars, clk, probe, store, extVars>>

\* check_and_restart_service smartwardrobe-server.service
WdServer ==
    /\ wd.pc = "server"
    /\ \E cmdOk \in BOOLEAN, activeAfter \in BOOLEAN :
         LET res == check_and_restart_service(svc.server, cmdOk, activeAfter)
         IN /\ svc' = [svc EXCEPT !.server = res.active]
            /\ wd' = WdAt(after_command(res.ok, "rfid"), wd.fail \/ ~res.ok, res.report)
    /\ UNCHANGED <<netVars, clk, probe, store, extVars>>

\* if systemctl is-enabled smartwardrobe-rfid.service: check_and_restart_service
WdRfid ==
    /\ wd.pc = "rfid"
    /\ IF ~svc.enabled
         THEN /\ wd' = WdAt("net", wd.fail, "none")
              /\ UNCHANGED svc
         ELSE \E cmdOk \in BOOLEAN, activeAfter \in BOOLEAN :
                LET res == check_and_restart_service(svc.rfid, cmdOk, activeAfter)
                IN /\ svc' = [svc EXCEPT !.rfid = res.active]
                   /\ wd' = WdAt(after_command(res.ok, "rfidhealth"),
                                 wd.fail \/ ~res.ok, res.report)
    /\ UNCHANGED <<netVars, clk, probe, store, extVars>>

\* check_rfid_service_health, which may start reset_acr122u &
WdRfidHealth ==
    /\ wd.pc = "rfidhealth"
    /\ LET reset == check_rfid_service_health(svc.enabled, svc.rfid, svc.scans,
                                              svc.restarts, svc.reader)
       IN /\ svc' = IF reset THEN [svc EXCEPT !.reset = "stop"] ELSE svc
          /\ wd' = WdAt(after_command(~reset, "net"), wd.fail \/ reset, "none")
    /\ UNCHANGED <<netVars, clk, probe, store, extVars>>

\* reset_acr122u: systemctl stop smartwardrobe-rfid.service
ResetStop ==
    /\ svc.reset = "stop"
    /\ svc' = [svc EXCEPT !.rfid = FALSE, !.reset = "usb"]
    /\ UNCHANGED <<netVars, wd, clk, probe, store, extVars>>

\* reset_acr122u: de-authorize and re-authorize the USB device, restart pcscd,
\* start smartwardrobe-rfid.service
ResetStart ==
    /\ svc.reset = "usb"
    /\ \E readerOk \in BOOLEAN, startOk \in BOOLEAN :
         svc' = [svc EXCEPT !.reader = readerOk, !.rfid = startOk, !.reset = "idle"]
    /\ UNCHANGED <<netVars, wd, clk, probe, store, extVars>>

\* check_network_connectivity as a step of the health check
WdNet(r) ==
    /\ wd.pc = "net"
    /\ \E hostapdOk \in BOOLEAN, dnsmasqOk \in BOOLEAN, pingOk \in BOOLEAN :
         LET failed == \/ modeMarker = "ap" /\ ~apUp /\ ~hostapdOk
                       \/ modeMarker = "ap" /\ ~dnsmasqUp /\ ~dnsmasqOk
         IN /\ check_network_connectivity(r, hostapdOk, dnsmasqOk)
            /\ wd' = [WdAt(after_command(~failed, "web"),
                           wd.fail \/ failed \/ (modeMarker = "client" /\ ~pingOk),
                           IF modeMarker = "ap" /\ ~apUp THEN "hostapd_down"
                           ELSE IF modeMarker = "ap" /\ ~dnsmasqUp THEN "dnsmasq_down"
                           ELSE "none")
                      EXCEPT !.hostapdOk = hostapdOk, !.dnsmasqOk = dnsmasqOk]
    /\ UNCHANGED <<svc, clk, probe, store, extVars>>

\* check_web_server_response, then the resource figures are logged
WdWeb ==
    /\ wd.pc = "web"
    /\ \E webOk \in BOOLEAN :
         wd' = WdAt(after_command(webOk, "sleep"), wd.fail \/ ~webOk, "none")
    /\ UNCHANGED <<netVars, svc, clk, probe, store, extVars>>

WdNext ==
    \/ Fault
    \/ WdTick
    \/ WdBootDone
    \/ WdServer
    \/ WdRfid
    \/ WdRfidHealth
    \/ ResetStop
    \/ ResetStart
    \/ WdWeb
    \/ \E r \in Runs :
        \/ WdBoot(r)
        \/ WdNet(r)
        \/ CwCheck(r)
        \/ CwTeardown(r)
        \/ CwProfile(r)
        \/ CwUp(r)
        \/ CwProbe(r)
        \/ CwSuccess(r)
        \/ CwFallback(r)
        \/ FaReset(r)
        \/ FaDaemons(r)

WdSpec == WdInit /\ [][WdNext]_vars

-----------------------------------------------------------------------------
(* smartwardrobe-watchdog.sh: the timing of the main loop.  The clock is     *)
(* counted in whole seconds, as date +%s gives it.                           *)

\* [ $(($(date +%s) % 300)) -lt "$CHECK_INTERVAL" ]
full_check_due(now) == now % SWEEP_PERIOD < CHECK_INTERVAL

\* The watchdog starts at any time, sleeps 60 s and makes its initial sweep.
ClkInit ==
    /\ NetInit
    /\ svc = SvcIdle /\ wd = WdIdle /\ probe = ProbeIdle /\ store = StoreIdle
    /\ ExtIdle
    /\ \E t0 \in 0..(SWEEP_PERIOD - 1) : clk = [pc |-> "sweep", t |-> t0, gap |-> 0]

\* One pass of the main loop: sleep 30, the quick check of the web server (a
\* restart takes its grace period), then the test whether a sweep is due.
ClkWake ==
    /\ clk.pc = "loop"
    /\ \E d \in 0..MaxOverhead, restart \in BOOLEAN :
         LET dt == CHECK_INTERVAL + d + (IF restart THEN RESTART_GRACE ELSE 0)
             now == (clk.t + dt) % SWEEP_PERIOD
         IN clk' = IF full_check_due(now)
                   THEN [pc |-> "sweep", t |-> now, gap |-> 0]
                   ELSE [pc |-> "loop", t |-> now, gap |-> Min(clk.gap + dt, MaxGap)]
    /\ UNCHANGED <<netVars, svc, wd, probe, store, extVars>>

\* perform_system_health_check takes its sleeps and the time of its commands.
ClkSweep ==
    /\ clk.pc = "sweep"
    /\ \E d \in 0..MaxOverhead :
         clk' = [pc |-> "loop", t |-> (clk.t + SWEEP_SLEEPS + d) % SWEEP_PERIOD,
                 gap |-> Min(clk.gap + SWEEP_SLEEPS + d, MaxGap)]
    /\ UNCHANGED <<netVars, svc, wd, probe, store, extVars>>

ClkNext == ClkWake \/ ClkSweep

ClkSpec == ClkInit /\ [][ClkNext]_vars

-----------------------------------------------------------------------------
(* The exit status of the provisioning scripts: one run of a script, given   *)
(* the outcome of every command it may come to, as the status it exits with  *)
(* and what it had achieved by then.                                         *)

ConfigStates == {"missing", "invalid", "valid"}

\* What the commands of a run turn out to be.  root: EUID is 0; files:
\* server.js lies next to install.sh; inet0: 8.8.8.8 answers the installer;
\* iface: a WiFi interface is found; flag: the setup-mode flag exists; nmOk:
\* NetworkManager starts and takes the interface; made: the profile is
\* created; linkUp, inet: the bring-up and the probe succeed; fa: the status
\* force-ap.sh exits with; maxed: the retry count has reached MAX_RETRIES - 1.
Outcomes ==
    [root : BOOLEAN, files : BOOLEAN, inet0 : BOOLEAN, iface : BOOLEAN,
     cfg : ConfigStates, flag : BOOLEAN, nmOk : BOOLEAN,
     made : {"ok", "addfail", "modfail"}, linkUp : BOOLEAN, inet : BOOLEAN,
     fa : {0, 1}, maxed : BOOLEAN]

\* did: "client" the client connection is established; "ap" AP mode has been
\* started; "retry" another attempt is scheduled; "fatal" a precondition of
\* the script is not met; "passed" every pre-flight check is passed; "none"
\* nothing of these.
Exit(status, did) == [status |-> status, did |-> did]

\* A call of force-ap.sh that exits with status fa: AP mode is up iff fa = 0.
ap_after(fa) == IF fa = 0 THEN "ap" ELSE "none"

\* install.sh, pre-flight checks
install_preflight(o) ==
    IF ~o.root THEN Exit(1, "fatal")
    ELSE IF ~o.files THEN Exit(1, "fatal")
    ELSE IF ~o.inet0 THEN Exit(1, "fatal")
    ELSE IF ~o.iface THEN Exit(1, "fatal")
    ELSE Exit(0, "passed")

\* smartwardrobe-connect-wifi.sh (install.sh), which runs under set -e: a
\* failing force-ap.sh, systemctl start or nmcli device set ends the script
\* with that command's status; the fallback ends with the status of force-ap.sh.
connect_wifi(o) ==
    IF o.cfg # "valid"
      THEN (IF o.fa = 0 THEN Exit(0, "ap") ELSE Exit(o.fa, "none"))
    ELSE IF ~o.nmOk THEN Exit(1, "none")
    ELSE IF o.made = "ok" /\ o.linkUp /\ o.inet THEN Exit(0, "client")
    ELSE Exit(o.fa, ap_after(o.fa))

\* smartwardrobe-connection-manager.sh (setup_ap.sh), without set -e
connection_manager(o) ==
    IF ~o.iface THEN Exit(1, "fatal")
    ELSE IF o.cfg # "valid" THEN Exit(0, ap_after(o.fa))
    ELSE IF o.made # "ok" THEN Exit(1, ap_after(o.fa))
    ELSE IF o.linkUp /\ o.inet THEN Exit(0, "client")
    ELSE Exit(1, ap_after(o.fa))

\* auto_setup_check.sh; start_setup_mode.sh has no status the script looks at
auto_setup_check(o) ==
    IF o.flag THEN Exit(0, "ap")
    ELSE IF o.cfg = "missing" THEN Exit(0, "ap")
    ELSE IF o.cfg = "valid" /\ o.linkUp /\ o.inet THEN Exit(0, "client")
    ELSE IF o.maxed THEN Exit(0, "ap")
    ELSE Exit(1, "retry")

ExitInit ==
    /\ NetInit
    /\ svc = SvcIdle /\ wd = WdIdle /\ clk = ClkIdle /\ probe = ProbeIdle
    /\ store = StoreIdle /\ bleno = BlenoIdle /\ rfid = RfidIdle
    /\ \E o \in Outcomes :
         script = [name |-> "none", pc |-> "idle", o |-> o,
                   status |-> 0, did |-> "none"]

\* The script runs to its exit.
Exited(name, e) ==
    /\ script.pc = "idle"
    /\ script' = [script EXCEPT !.name = name, !.pc = "exited",
                                !.status = e.status, !.did = e.did]
    /\ UNCHANGED <<netVars, svc, wd, clk, probe, store, bleno, rfid>>

RunInstall == Exited("install.sh", install_preflight(script.o))
RunConnectWifi == Exited("smartwardrobe-connect-wifi.sh", connect_wifi(script.o))
RunConnectionManager ==
    Exited("smartwardrobe-connection-manager.sh", connection_manager(script.o))
RunAutoSetupCheck == Exited("auto_setup_check.sh", auto_setup_check(script.o))

ExitNext ==
    \/ RunInstall
    \/ RunConnectWifi
    \/ RunConnectionManager
    \/ RunAutoSetupCheck

ExitSpec == ExitInit /\ [][ExitNext]_vars

-----------------------------------------------------------------------------
(* The retry chains of auto_setup_check.sh on a device whose joins all fail: *)
(* the check the autosetup service starts at boot, the checks wifi_watchdog  *)
(* starts while hostapd is down, and every retry they schedule.              *)

RetryInit ==
    /\ NetInit
    /\ deploy = "setup_ap"
    /\ SideIdle

\* try_wifi_connection returns 1: nmcli fails, the link does not come up in
\* 30 s, or no endpoint answers.
JoinFails(r) == AutoJoin(r) /\ run'[r].pc = "acct"

RetryNext ==
    \E r \in Runs :
        \/ AutosetupService(r)
        \/ WifiWatchdog(r)
        \/ AutoCheck(r)
        \/ AutoTry(r)
        \/ JoinFails(r)
        \/ AutoAcct(r)
        \/ AutoMaxed(r)
        \/ AutoStartAp(r)
        \/ AutoIncrRead(r)
        \/ AutoIncrWrite(r)
        \/ AutoRetry(r)

\* A script that has been started runs on: each of its steps is taken in the
\* end, the sleep of a scheduled retry included.
RetryFairness ==
    \A r \in Runs :
        /\ WF_vars(AutoCheck(r))
        /\ WF_vars(AutoTry(r))
        /\ WF_vars(JoinFails(r))
        /\ WF_vars(AutoAcct(r))
        /\ WF_vars(AutoMaxed(r))
        /\ WF_vars(AutoStartAp(r))
        /\ WF_vars(AutoIncrRead(r))
        /\ WF_vars(AutoIncrWrite(r))
        /\ WF_vars(AutoRetry(r))

RetrySpec == RetryInit /\ [][RetryNext]_vars /\ RetryFairness

-----------------------------------------------------------------------------
(* ble_server.js: the adapter state, the registration of the GATT services   *)
(* and advertising.  setServices and startAdvertising complete later than    *)
(* they are called; bleno runs the callback when the stack has completed the *)
(* call.                                                                     *)

BleInit ==
    /\ NetInit
    /\ svc = SvcIdle /\ wd = WdIdle /\ clk = ClkIdle /\ probe = ProbeIdle
    /\ store = StoreIdle /\ script = ScriptIdle /\ rfid = RfidIdle
    /\ bleno = BlenoIdle

\* startAdvertisingAndServe: bleno.setServices([primaryService], callback)
startAdvertisingAndServe(b) == [b EXCEPT !.pending = Append(@, "serve")]

\* bleno.on('stateChange'): poweredOn starts serving; any other state stops
\* advertising and calls setServices([], () => {})
BleStateChange ==
    /\ bleno.n < MaxBleEvents /\ Len(bleno.pending) < MaxPending
    /\ \E state \in {"poweredOn", "poweredOff"} :
         /\ state # bleno.state
         /\ LET b == [bleno EXCEPT !.state = state, !.n = @ + 1,
                                   !.connected = (@ /\ state = "poweredOn")]
            IN bleno' = IF state = "poweredOn" THEN startAdvertisingAndServe(b)
                        ELSE [b EXCEPT !.advertising = FALSE,
                                       !.pending = Append(@, "clear")]
    /\ UNCHANGED <<netVars, svc, wd, clk, probe, store, script, rfid>>

\* The stack completes the oldest setServices call and bleno runs its
\* callback: for the call of startAdvertisingAndServe, return on an error, else
\* bleno.startAdvertising, which may fail as well.
BleServicesSet ==
    /\ bleno.pending # <<>>
    /\ \E setErr \in BOOLEAN, advErr \in BOOLEAN :
         LET call == Head(bleno.pending)
             b == [bleno EXCEPT !.pending = Tail(@),
                                !.services = IF setErr THEN @ ELSE (call = "serve")]
         IN bleno' = IF call = "serve" /\ ~setErr
                     THEN [b EXCEPT !.advertising = (@ \/ ~advErr)]
                     ELSE b
    /\ UNCHANGED <<netVars, svc, wd, clk, probe, store, script, rfid>>

\* bleno.on('accept'): a central connects, and the adapter stops advertising
BleAccept ==
    /\ bleno.n < MaxBleEvents
    /\ bleno.advertising /\ ~bleno.connected
    /\ bleno' = [bleno EXCEPT !.connected = TRUE, !.advertising = FALSE, !.n = @ + 1]
    /\ UNCHANGED <<netVars, svc, wd, clk, probe, store, script, rfid>>

\* bleno.on('disconnect'): setTimeout(..., 250)
BleDisconnect ==
    /\ bleno.n < MaxBleEvents
    /\ bleno.connected
    /\ bleno' = [bleno EXCEPT !.connected = FALSE, !.timers = @ + 1, !.n = @ + 1]
    /\ UNCHANGED <<netVars, svc, wd, clk, probe, store, script, rfid>>

\* The timer fires: if (bleno.state === 'poweredOn') startAdvertisingAndServe()
BleTimer ==
    /\ bleno.timers > 0 /\ Len(bleno.pending) < MaxPending
    /\ LET b == [bleno EXCEPT !.timers = @ - 1]
       IN bleno' = IF bleno.state = "poweredOn" THEN startAdvertisingAndServe(b)
                   ELSE b
    /\ UNCHANGED <<netVars, svc, wd, clk, probe, store, script, rfid>>

BleNext ==
    \/ BleStateChange
    \/ BleServicesSet
    \/ BleAccept
    \/ BleDisconnect
    \/ BleTimer

BleSpec == BleInit /\ [][BleNext]_vars

-----------------------------------------------------------------------------
(* RFIDService of the RFID unit: the cooldown of handleRFIDTag.  Time is     *)
(* Date.now() in milliseconds.                                               *)

RfidInit ==
    /\ NetInit
    /\ svc = SvcIdle /\ wd = WdIdle /\ clk = ClkIdle /\ probe = ProbeIdle
    /\ store = StoreIdle /\ script = ScriptIdle /\ bleno = BlenoIdle
    /\ \E backend \in BOOLEAN :
         rfid = [RfidIdle EXCEPT !.now = ClockStart, !.backend = backend]

handleRFIDTag_Extend(lastTagTime, now, tagId) ==
    IF lastTagTime[tagId] # 0 /\ (now - lastTagTime[tagId]) < TAG_COOLDOWN
    THEN [lastTagTime |-> [lastTagTime EXCEPT ![tagId] = now], forwarded |-> FALSE]
    ELSE [lastTagTime |-> [lastTagTime EXCEPT ![tagId] = now], forwarded |-> TRUE]
\* handleRFIDTag: return while the cooldown of the tag runs; else note the time
\* and call sendToBackend
handleRFIDTag(lastTagTime, now, tagId) ==
    IF lastTagTime[tagId] # 0 /\ (now - lastTagTime[tagId]) < TAG_COOLDOWN
    THEN [lastTagTime |-> lastTagTime, forwarded |-> FALSE]
    ELSE [lastTagTime |-> [lastTagTime EXCEPT ![tagId] = now], forwarded |-> TRUE]

\* sendToBackend: return unless the config holds backendUrl and apiKey; else POST
sendToBackend(backend) == backend

\* Time passes.
RfidTick ==
    /\ rfid.now < MaxClock
    /\ rfid' = [rfid EXCEPT !.now = @ + ClockStep, !.read = NoRead]
    /\ UNCHANGED <<netVars, svc, wd, clk, probe, store, script, bleno>>

\* The reader reports a tag: this.handleRFIDTag(tagData)
RfidRead ==
    /\ \E tagId \in Tags :
         LET h == handleRFIDTag(rfid.lastTagTime, rfid.now, tagId)
         IN rfid' = [rfid EXCEPT
              !.lastTagTime = h.lastTagTime,
              !.fwd[tagId] = IF h.forwarded THEN rfid.now ELSE @,
              !.skipped[tagId] = ~h.forwarded,
              !.read = [tag |-> tagId, forwarded |-> h.forwarded,
                        posted |-> h.forwarded /\ sendToBackend(rfid.backend),
                        prev |-> rfid.fwd[tagId],
                        afterSkip |-> rfid.skipped[tagId]]]
    /\ UNCHANGED <<netVars, svc, wd, clk, probe, store, script, bleno>>

RfidNext == RfidTick \/ RfidRead

RfidSpec == RfidInit /\ [][RfidNext]_vars

-----------------------------------------------------------------------------
(* Properties.                                                             *)

\* The steps of a run that drive wlan0 into another mode.
ModeTransition(r) ==
    run[r].pc \in {"join", "startap", "teardown", "profile", "up", "probe",
                   "fallback", "fa", "fa_daemons"}

\* C1: a controller run that finds no config.json goes on to start the access
\* point; it never brings a profile up, and none of its steps creates a
\* connection profile or changes the retry-count file.  The boot service
\* starts force-ap.sh when there is no config.json.
C1_MissingConfigGoesToAp ==
    [][\A r \in Runs :
         /\ (run[r].pc = "start" /\ run'[r] # run[r] /\ configFile.st = "absent")
              => /\ run'[r].pc \in {"startap", "fa"}
                 /\ run'[r].res \in {"missing", "flag"}
                 /\ run'[r].joins = 0
         /\ (deploy = "install" /\ bootPending /\ ~bootPending'
               /\ run'[r] # run[r] /\ configFile.st = "absent")
              => (run'[r].kind = "forceap" /\ run'[r].res = "missing")
         /\ (run[r].res = "missing" /\ run'[r] # run[r])
              => /\ run'[r].pc \in {"fa_daemons", "idle"}
                 /\ run'[r].joins = 0
                 /\ retryFile' = retryFile
                 /\ profiles' \subseteq profiles
      ]_vars

C1_Witness ==
    \E r \in Runs : /\ run[r].res = "missing"
                    /\ run[r].pc \in {"startap", "fa_daemons"}
                    /\ run[r].joins = 0
                    /\ configFile.st = "absent"

\* C2: a run that finds the stored ssid or password empty never ends up
\* waiting for a scheduled retry with the failure counted.
C2_InvalidConfigNotCounted ==
    \A r \in Runs : run[r].res = "invalid" => run[r].pc # "sleep"

\* C3: a failed attempt takes the max-retries branch (counter removed, setup
\* mode started) exactly when it is the MAX_RETRIES-th failed attempt accounted
\* since the last success, counter removal or reconfiguration.
C3_ApAfterThreeFailures ==
    [][\A r \in Runs :
         (run[r].pc = "acct" /\ run'[r] # run[r])
           => (run'[r].pc = "maxed" <=> streak' = MAX_RETRIES)]_vars

\* C4: once the BLE writer has renamed a new config over config.json the retry
\* counter is 0.
C4_OverwriteResetsCounter ==
    writer["ble"].pc = "saved" => retryFile = <<>>

\* C5: the persisted retry counter is in 0..MAX_RETRIES.
C5_CounterInRange ==
    retryFile = <<>> \/ retryFile[1] \in 0..MAX_RETRIES

C8_NoProfileLeft ==
    \A r \in Runs : ~run[r].left

\* C9: whenever a controller run is about to read config.json, the file is
\* absent or holds a complete JSON object.
C9_ReaderSeesCompleteConfig ==
    \A r \in Runs : run[r].pc \in {"start", "try"} => configFile.st # "partial"

\* C10: no two runs are inside their mode-transition steps at the same time.
C10_NoOverlap ==
    \A r \in Runs, q \in Runs : (r # q) => ~(ModeTransition(r) /\ ModeTransition(q))

\* C11: a force-ap.sh or connect-wifi.sh run that ends without having joined
\* and probed successfully does not leave "client" in the mode marker.
C11_MarkerFollowsLastRun ==
    [][\A r \in Runs :
         (run[r].kind \in {"connect", "forceap"} /\ run[r].pc \notin {"idle", "ok"}
            /\ run'[r].pc = "idle")
           => modeMarker' # "client"]_vars

\* C12: the watchdog starts no controller run while wlan0 is connected as a
\* client (a failed reachability check is only logged).
C12_ClientModeOnlyLogs ==
    [][\A r \in Runs :
         (deploy = "setup_ap" /\ ~bootPending /\ ~setupFlag'
            /\ configFile'.st # "absent"
            /\ run[r].pc = "idle" /\ run'[r].pc = "start")
           => ~(wifiUp /\ ~apUp)]_vars

CwOrder ==
    {<<"teardown", "profile">>, <<"teardown", "idle">>,
     <<"profile", "up">>, <<"profile", "fallback">>,
     <<"up", "probe">>, <<"up", "fallback">>,
     <<"probe", "ok">>, <<"probe", "fallback">>}

C17_EitherEndpoint ==
    /\ probe.auto # "unset"
         => (probe.auto = "ok" <=> (probe.lat1 <= PING_WAIT \/ probe.lat2 <= PING_WAIT))
    /\ probe.connect # "unset"
         => (probe.connect = "ok" <=> (probe.lat1 <= PING_WAIT \/ probe.lat2 <= PING_WAIT))

\* What a value of the config file may be other than a value of the request
\* that wrote it: nothing, a default, a device constant, the version.
ConfigConstants ==
    {"", HTTP_BACKEND_DEFAULT, BLE_BACKEND_DEFAULT, DEVICE_SERIAL, DEVICE_MAC, "2.0"}

\* C20: after a configure request was accepted, every field of config.json holds
\* a value of that request, a default or device constant, or the time of that
\* request; no value of an earlier request is left.
C20_ConfigReplaced ==
    store.last >= 1
      => \A f \in ConfigFields :
           store.file[f] \in ConfigConstants \cup {ReqValue[store.last], Stamp[store.last]}

\* A second request that omitted backendUrl has been accepted after a first
\* one that gave it.
C20_Witness ==
    /\ store.last = 2 /\ store.status = "saved"
    /\ store.prev["backendUrl"] = ReqValue[1]
    /\ store.file["backendUrl"] \in {"", HTTP_BACKEND_DEFAULT, BLE_BACKEND_DEFAULT}

\* C20 as stated: after an accepted configure request the file holds the device
\* constants and the time of the request.
C20_ConstantsAndTimestamp ==
    store.last >= 1
      => /\ store.file["deviceSerial"] = DEVICE_SERIAL
         /\ store.file["deviceMac"] = DEVICE_MAC
         /\ store.file["configuredAt"] = Stamp[store.last]

\* C13: in mode "ap" the network check of a health sweep restarts hostapd if
\* it is not active, restarts dnsmasq if it is not active, and starts force-ap.sh
\* exactly when wlan0 does not carry 192.168.4.1; when the restarts bring the
\* daemons up, hostapd and dnsmasq are both active after the check.
C13_ApSweepRestores ==
    [][(wd.pc = "net" /\ wd'.pc # "net" /\ modeMarker = "ap")
         => /\ apUp' = (apUp \/ wd'.hostapdOk)
            /\ dnsmasqUp' = (dnsmasqUp \/ wd'.dnsmasqOk)
            /\ (~apIp) <=> (\E r \in Runs : /\ run[r].pc = "idle"
                                            /\ run'[r].kind = "forceap"
                                            /\ run'[r].pc = "fa")
            /\ (wd'.hostapdOk /\ wd'.dnsmasqOk) => (apUp' /\ dnsmasqUp')]_vars

\* A network check in mode "ap" has found hostapd down and the address
\* missing; both daemons are active again and force-ap.sh has been started.
C13_Witness ==
    /\ modeMarker = "ap" /\ wd.pc = "web" /\ wd.report = "hostapd_down"
    /\ apUp /\ dnsmasqUp /\ ~apIp
    /\ \E r \in Runs : run[r].kind = "forceap" /\ run[r].pc = "fa"

\* C15: no step of the watchdog ends the script; the step after the last check
\* of a health sweep is the sleep of the main loop, and the step after the
\* sleep is the next sleep or the next sweep, whatever has failed before.
C15_WatchdogSurvives ==
    [][/\ wd'.pc # "exited"
       /\ (wd.pc = "web" /\ wd' # wd) => (wd'.pc = "sleep")
       /\ (wd.pc = "sleep") => (wd'.pc \in {"sleep", "boot"})]_vars

\* A cycle in which a check failed is over, the web server is still down, and
\* the watchdog sleeps until its next cycle.
C15_Witness ==
    wd.pc = "sleep" /\ wd.fail /\ ~svc.server

\* C16: the RFID part of a health sweep starts reset_acr122u when the unit is
\* enabled and its scan-failure count or its restart count is above the
\* threshold, and starts none when both counts are at or below it and the
\* reader is accessible.
C16_ResetWhenExceeded ==
    [][(wd.pc = "rfidhealth" /\ wd'.pc # "rfidhealth")
         => /\ (svc.enabled /\ (svc.scans > RFID_THRESHOLD \/ svc.restarts > RFID_THRESHOLD))
                 => (svc'.reset = "stop")
            /\ (svc.scans <= RFID_THRESHOLD /\ svc.restarts <= RFID_THRESHOLD /\ svc.reader)
                 => (svc'.reset = svc.reset)]_vars

\* C19: a health sweep begins in every period of SWEEP_PERIOD seconds, so that
\* never more than a period and the width of the window have passed since the
\* latest sweep began.
C19_SweepEveryPeriod ==
    clk.gap <= SWEEP_PERIOD + CHECK_INTERVAL

\* C21: a provisioning script exits with status 0 whenever it has established
\* the client connection or started AP mode, and with a status other than 0
\* only when a precondition (root, a WiFi interface, internet for the
\* installer) is not met.
C21_ExitConvention ==
    script.pc = "exited"
      => /\ script.did \in {"client", "ap"} => script.status = 0
         /\ script.status # 0 => script.did = "fatal"

\* C22: a connect-wifi.sh run ends only after it has written "client" to the
\* mode marker or has called force-ap.sh; in particular no run ends right
\* after it has stopped the AP services.
C22_NoStrandedExit ==
    [][\A r \in Runs :
         (run[r].kind = "connect" /\ run[r].pc # "idle" /\ run'[r].pc = "idle")
           => run[r].pc \in {"ok", "fa", "fa_daemons"}]_vars

\* C23: when POST /api/configure has saved the config and cleared the retry
\* flags, the retry-count file and the setup-mode flag are both absent.
C23_RetryFlagsCleared ==
    [][(writer["http"].pc = "saved" /\ writer'["http"].pc = "connect")
         => (retryFile' = <<>> /\ ~setupFlag')]_vars

\* C24: an auto_setup_check.sh run that finds the setup-mode flag goes on to
\* start_setup_mode.sh and ends there, whatever config.json holds; it makes no
\* join attempt, and none of its steps changes the retry-count file.
C24_FlagForcesAp ==
    [][\A r \in Runs :
         /\ (run[r].kind = "auto" /\ run[r].pc = "start" /\ setupFlag
               /\ run'[r] # run[r])
              => /\ run'[r].pc = "startap" /\ run'[r].res = "flag"
                 /\ run'[r].joins = 0
                 /\ retryFile' = retryFile
         /\ (run[r].res = "flag" /\ run'[r] # run[r])
              => /\ run[r].pc = "startap" /\ run'[r].pc = "idle"
                 /\ run[r].joins = 0
                 /\ ~wifiUp'
                 /\ retryFile' = retryFile
      ]_vars

\* A run has found the flag although a valid config is stored and failed
\* attempts have been counted; it is about to start setup mode.
C24_Witness ==
    \E r \in Runs : /\ run[r].res = "flag" /\ run[r].pc = "startap"
                    /\ setupFlag
                    /\ configFile = Json("net", "pw")
                    /\ retryFile # <<>>

\* C25: while every join attempt fails, each chain of a startup check and the
\* retries it schedules comes to its end, whatever other checks run beside it.
C25_RetriesTerminate ==
    \A r \in Runs : (run[r].pc # "idle") ~> (run[r].pc = "idle")

\* Setup mode is active and healthy: the marker says "ap", hostapd and dnsmasq
\* are active, wlan0 carries 192.168.4.1 and the supervised units are active.
HealthyAp ==
    /\ modeMarker = "ap" /\ apUp /\ dnsmasqUp /\ apIp
    /\ svc.boot /\ svc.server /\ (svc.enabled => svc.rfid)

\* C26: a step of the watchdog taken while setup mode is active and healthy
\* starts no script, restarts and stops no daemon or unit, leaves the address
\* and the link as they are, and changes neither the mode marker nor the
\* retry-count file.
C26_HealthyApUntouched ==
    [][(wd' # wd /\ HealthyAp)
         => /\ run' = run
            /\ apUp' = apUp /\ dnsmasqUp' = dnsmasqUp /\ apIp' = apIp
            /\ wifiUp' = wifiUp
            /\ svc'.boot = svc.boot /\ svc'.server = svc.server
            /\ modeMarker' = modeMarker
            /\ retryFile' = retryFile]_vars

\* The network check of a sweep has just been made on a healthy access point
\* on which nothing has failed so far.
C26_Witness ==
    /\ wd.pc = "web" /\ ~wd.fail /\ svc.faults = 0
    /\ HealthyAp
    /\ \A r \in Runs : run[r].pc = "idle"

\* C27: the configure handler of server.js comes to stop the setup server,
\* hostapd and dnsmasq only after its connect command has succeeded and its
\* later state check has found wlan0 connected; no other step of the handler
\* stops hostapd or dnsmasq, and a handler whose connect fails or whose state
\* check does not report connected ends with both as they were.
C27_ShutdownOnlyWhenStable ==
    [][(writer'["http"] # writer["http"])
         => /\ (writer'["http"].pc = "stable")
                 => (writer["http"].pc = "connect" /\ wifiUp')
            /\ (writer'["http"].pc = "shutdown")
                 => (writer["http"].pc = "stable" /\ wifiUp)
            /\ (writer["http"].pc # "shutdown")
                 => (apUp' = apUp /\ dnsmasqUp' = dnsmasqUp)]_vars

\* The connect command has succeeded and the state check has found wlan0
\* connected while the access point is up: the handler is about to stop it.
C27_Witness ==
    /\ writer["http"].pc = "shutdown"
    /\ apUp /\ dnsmasqUp /\ wifiUp

C29_CooldownPerTag ==
    rfid.read.tag # "none"
      => (rfid.read.forwarded
            <=> (rfid.read.prev = 0 \/ rfid.now - rfid.read.prev >= TAG_COOLDOWN))

\* A tag is handed on exactly TAG_COOLDOWN ms after it was handed on before,
\* although a read of it was suppressed in between and the other tag was
\* handed on after it.
C29_Witness ==
    /\ rfid.read.tag = "a" /\ rfid.read.forwarded /\ rfid.read.afterSkip
    /\ rfid.read.prev # 0 /\ rfid.now - rfid.read.prev = TAG_COOLDOWN
    /\ rfid.fwd["b"] > rfid.read.prev

\* C30: a configure request without a required field (POST /api/configure or
\* POST /configure without ssid, password or apiKey; a BLE write with an offset
\* above 0 or without ssid or password) is answered with an error (400, a BLE
\* error result) and leaves config.json, the retry file and the setup-mode
\* flag as they were and starts no connection attempt.
C30_RejectedChangesNothing ==
    [][(/\ store'.n # store.n
        /\ \/ /\ store'.via \in {"http", "plain"}
              /\ \E f \in {"ssid", "password", "apiKey"} : store'.req[f] = ""
           \/ /\ store'.via = "ble"
              /\ \/ store'.offset > 0
                 \/ \E f \in {"ssid", "password"} : store'.req[f] = "")
         => /\ store'.code \in {"400", "RESULT_ATTR_NOT_LONG", "RESULT_UNLIKELY_ERROR"}
            /\ store'.via = "ble" <=> store'.code # "400"
            /\ store'.file = store.file
            /\ retryFile' = retryFile
            /\ setupFlag' = setupFlag
            /\ store'.attempts = store.attempts]_vars

\* A request without apiKey was answered with 400 while config.json held an
\* earlier config and the retry file and the setup-mode flag were there.
C30_Witness ==
    /\ store.status = "rejected" /\ store.code = "400"
    /\ store.req["ssid"] # "" /\ store.req["password"] # "" /\ store.req["apiKey"] = ""
    /\ store.last >= 1 /\ store.file # NoConfig /\ store.attempts = 1
    /\ retryFile # <<>> /\ setupFlag

====
